---- MODULE Spec2Model ----
(***************************************************************************)
(* The tool-call orchestration loop of the cloud compliance assistant:     *)
(* the console client (mcp-client/mcp_client.py) and the Flask client      *)
(* (mcp-client/mcp_client_flask.py).                                       *)
(*                                                                         *)
(* Text is a sequence of tokens.  A token is a string that stands for a    *)
(* run of characters; the marker "TOOL_CALL:", a newline, a blank, "{",    *)
(* "}" and "," are tokens of their own, so that the parser's splits and    *)
(* strips act on them as the code's do on characters.                      *)
(*                                                                         *)
(* The event loop runs one coroutine at a time and switches only at an     *)
(* await, so an action is the run of a coroutine from one suspension point *)
(* to the next.  call_llm is a blocking call inside the coroutine: it is   *)
(* part of the action that makes it.                                       *)
(***************************************************************************)
EXTENDS Integers, Sequences, FiniteSets, TLC

VARIABLES
    frontend,               \* "flask" or "console": which program runs; "direct":
                            \* no program, one method is called on its own
    session,                \* the MCP connection: "connecting", "open", "failed", "closed"
    client,                 \* the Flask global client, as the handler threads see it
    client_ready,           \* the Flask global readiness flag
    conversation_history,   \* CloudComplianceClient.conversation_history
    turn,                   \* per request slot: the process_message coroutine / loop pass
    handler,                \* per request slot: "waiting" while the caller waits for its answer
    last_response,          \* the answer the last step gave to a caller, if any
    done,                   \* the record of the turn the last step committed, if any
    nTurns,                 \* number of turns started so far
    last_input,             \* the message the last step took from a caller, if any
    call                    \* a method of the client called on its own: argument and result

vars == <<frontend, session, client, client_ready, conversation_history, turn, handler,
          last_response, last_input, done, nTurns, call>>

-----------------------------------------------------------------------------
(* Bounds *)

MaxTurns == 2
NumReqs == 2
MaxTextLen == 3

Reqs == 1..NumReqs

-----------------------------------------------------------------------------
(* Text *)

Marker == "TOOL_CALL:"
NL == "\n"
Whitespace == {" ", NL}

Contains(s, tok) == \E i \in 1..Len(s) : s[i] = tok

\* Index of the first occurrence of tok in s, 0 when there is none.
IndexOf(s, tok) ==
    IF Contains(s, tok)
    THEN CHOOSE i \in 1..Len(s) : s[i] = tok /\ \A j \in 1..(i - 1) : s[j] # tok
    ELSE 0

\* s.split(tok, 1)[0] and s.split(tok, 1)[1] (the latter only when tok occurs).
SplitBefore(s, tok) ==
    IF Contains(s, tok) THEN SubSeq(s, 1, IndexOf(s, tok) - 1) ELSE s
SplitAfter(s, tok) == SubSeq(s, IndexOf(s, tok) + 1, Len(s))

RECURSIVE LStrip(_)
LStrip(s) ==
    IF s # <<>> /\ Head(s) \in Whitespace THEN LStrip(Tail(s)) ELSE s

RECURSIVE RStrip(_)
RStrip(s) ==
    IF s # <<>> /\ s[Len(s)] \in Whitespace
    THEN RStrip(SubSeq(s, 1, Len(s) - 1))
    ELSE s

\* str.strip()
Strip(s) == RStrip(LStrip(s))

\* str.lower() on the tokens the console compares with its exit words.
Lower(s) ==
    [i \in 1..Len(s) |->
        CASE s[i] = "EXIT" -> "exit"
          [] s[i] = "Quit" -> "quit"
          [] OTHER -> s[i]]

-----------------------------------------------------------------------------
(* JSON object literals, as json.loads reads the text from the first "{".   *)
(* A member token stands for one well-formed  "key": scalar  pair and a key *)
(* token for  "key":  in front of a nested object; any other token inside   *)
(* the braces makes the literal malformed.  The decoded mapping is the set  *)
(* of its members, each given by the keys that lead to it.                  *)

Members == {"\"resourceType\": \"storage\"", "\"standard\": \"SOC2\""}
Keys == {"\"filter\":"}
EmptyObject == "{}"

JSONDecodeError == [ok |-> FALSE, value |-> {}]

RECURSIVE NoWhitespace(_)
NoWhitespace(s) ==
    IF s = <<>> THEN <<>>
    ELSE IF Head(s) \in Whitespace THEN NoWhitespace(Tail(s))
    ELSE <<Head(s)>> \o NoWhitespace(Tail(s))

\* The scanner's end: the mapping read and the place after it, or no mapping.
Scanned(value, next) == [ok |-> TRUE, value |-> value, next |-> next]
NotScanned == [ok |-> FALSE, value |-> {}, next |-> 0]

\* The members of the object under key, each with key in front; an empty
\* object is a member of its own.
Under(key, value) ==
    IF value = {} THEN {<<key, EmptyObject>>} ELSE {<<key>> \o m : m \in value}

RECURSIVE ScanObject(_, _)
RECURSIVE ScanMembers(_, _)

\* An object whose "{" stands at place i of t.
ScanObject(t, i) ==
    IF i + 1 > Len(t) \/ t[i] # "{" THEN NotScanned
    ELSE IF t[i + 1] = "}" THEN Scanned({}, i + 2)
    ELSE ScanMembers(t, i + 1)

\* member ("," member)* "}" from place i of t on.
ScanMembers(t, i) ==
    LET member ==
            IF i > Len(t) THEN NotScanned
            ELSE IF t[i] \in Members THEN Scanned({<<t[i]>>}, i + 1)
            ELSE IF t[i] \in Keys
                 THEN LET inner == ScanObject(t, i + 1)
                      IN  IF inner.ok
                          THEN Scanned(Under(t[i], inner.value), inner.next)
                          ELSE NotScanned
                 ELSE NotScanned
    IN  IF ~member.ok \/ member.next > Len(t) THEN NotScanned
        ELSE IF t[member.next] = "}" THEN Scanned(member.value, member.next + 1)
        ELSE IF t[member.next] = ","
             THEN LET rest == ScanMembers(t, member.next + 1)
                  IN  IF rest.ok
                      THEN Scanned(member.value \cup rest.value, rest.next)
                      ELSE NotScanned
             ELSE NotScanned

\* json.loads(json_str): the decoded mapping, or JSONDecodeError.  Text after
\* the closing brace is "Extra data".
JsonLoads(json_str) ==
    LET t == NoWhitespace(json_str)
        object == ScanObject(t, 1)
    IN  IF object.ok /\ object.next = Len(t) + 1
        THEN [ok |-> TRUE, value |-> object.value]
        ELSE JSONDecodeError

-----------------------------------------------------------------------------
(* parse_tool_call *)

None == [found |-> FALSE, tool_name |-> <<>>, arguments |-> {}]

\* Faulty variant: the text after the first "{" is split at every "{" and only the
\* piece up to the second one is read.
parse_tool_call_splits_every_brace(llm_response) ==
    IF Contains(llm_response, Marker)
    THEN LET parts == Strip(SplitAfter(llm_response, Marker))
             tool_line == Strip(SplitBefore(parts, NL))
         IN  IF Contains(tool_line, "{")
             THEN LET tool_name == Strip(SplitBefore(tool_line, "{"))
                      json_str == <<"{">> \o SplitBefore(SplitAfter(tool_line, "{"), "{")
                      arguments == JsonLoads(json_str)
                  IN  IF arguments.ok
                      THEN [found |-> TRUE, tool_name |-> tool_name,
                            arguments |-> arguments.value]
                      ELSE None
             ELSE [found |-> TRUE, tool_name |-> tool_line, arguments |-> {}]
    ELSE None

\* Faulty variant: a response without the marker is read as an invocation line.
parse_tool_call_without_marker(llm_response) ==
    IF Contains(llm_response, Marker)
    THEN LET parts == Strip(SplitAfter(llm_response, Marker))
             tool_line == Strip(SplitBefore(parts, NL))
         IN  IF Contains(tool_line, "{")
             THEN LET tool_name == Strip(SplitBefore(tool_line, "{"))
                      json_str == <<"{">> \o SplitAfter(tool_line, "{")
                      arguments == JsonLoads(json_str)
                  IN  IF arguments.ok
                      THEN [found |-> TRUE, tool_name |-> tool_name,
                            arguments |-> arguments.value]
                      ELSE None
             ELSE [found |-> TRUE, tool_name |-> tool_line, arguments |-> {}]
    ELSE [found |-> TRUE, tool_name |-> Strip(llm_response), arguments |-> {}]

\* Faulty variant: a malformed argument literal gives the tool name with no arguments.
parse_tool_call_keeps_name(llm_response) ==
    IF Contains(llm_response, Marker)
    THEN LET parts == Strip(SplitAfter(llm_response, Marker))
             tool_line == Strip(SplitBefore(parts, NL))
         IN  IF Contains(tool_line, "{")
             THEN LET tool_name == Strip(SplitBefore(tool_line, "{"))
                      json_str == <<"{">> \o SplitAfter(tool_line, "{")
                      arguments == JsonLoads(json_str)
                  IN  IF arguments.ok
                      THEN [found |-> TRUE, tool_name |-> tool_name,
                            arguments |-> arguments.value]
                      ELSE [found |-> TRUE, tool_name |-> tool_name, arguments |-> {}]
             ELSE [found |-> TRUE, tool_name |-> tool_line, arguments |-> {}]
    ELSE None

\* Faulty variant: the remainder is not cut at its first newline.
parse_tool_call_whole_remainder(llm_response) ==
    IF Contains(llm_response, Marker)
    THEN LET parts == Strip(SplitAfter(llm_response, Marker))
             tool_line == parts
         IN  IF Contains(tool_line, "{")
             THEN LET tool_name == Strip(SplitBefore(tool_line, "{"))
                      json_str == <<"{">> \o SplitAfter(tool_line, "{")
                      arguments == JsonLoads(json_str)
                  IN  IF arguments.ok
                      THEN [found |-> TRUE, tool_name |-> tool_name,
                            arguments |-> arguments.value]
                      ELSE None
             ELSE [found |-> TRUE, tool_name |-> tool_line, arguments |-> {}]
    ELSE None

\* Faulty variant: a line without "{" is no invocation.
parse_tool_call_needs_arguments(llm_response) ==
    IF Contains(llm_response, Marker)
    THEN LET parts == Strip(SplitAfter(llm_response, Marker))
             tool_line == Strip(SplitBefore(parts, NL))
         IN  IF Contains(tool_line, "{")
             THEN LET tool_name == Strip(SplitBefore(tool_line, "{"))
                      json_str == <<"{">> \o SplitAfter(tool_line, "{")
                      arguments == JsonLoads(json_str)
                  IN  IF arguments.ok
                      THEN [found |-> TRUE, tool_name |-> tool_name,
                            arguments |-> arguments.value]
                      ELSE None
             ELSE None
    ELSE None

\* Faulty variant: a line without a name is no tool call.
parse_tool_call_needs_name(llm_response) ==
    IF Contains(llm_response, Marker)
    THEN LET parts == Strip(SplitAfter(llm_response, Marker))
             tool_line == Strip(SplitBefore(parts, NL))
         IN  IF Contains(tool_line, "{")
             THEN LET tool_name == Strip(SplitBefore(tool_line, "{"))
                      json_str == <<"{">> \o SplitAfter(tool_line, "{")
                      arguments == JsonLoads(json_str)
                  IN  IF arguments.ok
                      THEN [found |-> TRUE, tool_name |-> tool_name,
                            arguments |-> arguments.value]
                      ELSE None
             ELSE IF tool_line = <<>>
                  THEN None
                  ELSE [found |-> TRUE, tool_name |-> tool_line, arguments |-> {}]
    ELSE None

parse_tool_call(llm_response) ==
    IF Contains(llm_response, Marker)
    THEN LET parts == Strip(SplitAfter(llm_response, Marker))
             tool_line == Strip(SplitBefore(parts, NL))
         IN  IF Contains(tool_line, "{")
             THEN LET tool_name == Strip(SplitBefore(tool_line, "{"))
                      json_str == <<"{">> \o SplitAfter(tool_line, "{")
                      arguments == JsonLoads(json_str)
                  IN  IF arguments.ok
                      THEN [found |-> TRUE, tool_name |-> tool_name,
                            arguments |-> arguments.value]
                      ELSE None
             ELSE [found |-> TRUE, tool_name |-> tool_line, arguments |-> {}]
    ELSE None

-----------------------------------------------------------------------------
(* The external collaborators' possible outcomes *)

DirectAnswer == <<"You have two buckets.">>
ToolCallWithArgs ==
    <<Marker, " ", "check_resource_compliance", " ", "{",
      "\"resourceType\": \"storage\"", ",", " ", "\"standard\": \"SOC2\"", "}">>

\* What the model may answer to a decision or a narration call.
LlmTexts == {DirectAnswer, ToolCallWithArgs}

\* str(e) of an exception raised by ollama.chat.
LlmErrors ==
    {<<"connection refused">>,
     <<"model rejected prompt: ", Marker, " ", "list_s3_buckets", " ", "{", "}">>}

\* What ollama.chat does: it returns a response or raises.
LlmOutcomes ==
    [type : {"ok"}, content : LlmTexts, err : {<<>>}]
        \cup [type : {"raises"}, content : {<<>>}, err : LlmErrors]

\* Decision responses with an invocation line the parser turns down, with a
\* tool the backend does not have, and with nothing after the marker.
MalformedCall == <<Marker, " ", "list_s3_buckets", " ", "{", "not json">>
UnknownToolCall == <<Marker, " ", "restart_cluster">>
BareMarker == <<"Let me check.", NL, Marker, " ">>

\* What ollama.chat does in a decision call.
DecisionOutcomes ==
    LlmOutcomes
        \cup [type : {"ok"}, content : {MalformedCall, UnknownToolCall, BareMarker},
               err : {<<>>}]

ToolText == <<"bucket-a, bucket-b">>
ToolError == <<"Connection closed">>
NoTextAttribute == <<"'ImageContent' object has no attribute 'text'">>

TextPart == [has_text |-> TRUE, text |-> ToolText]
ImagePart == [has_text |-> FALSE, text |-> <<>>]

NoOutcome == [type |-> "none", content |-> <<>>, err |-> <<>>]
NoToolReply ==
    [type |-> "none", err |-> <<>>, kind |-> "absent", parts |-> <<>>,
     repr |-> <<>>, content_repr |-> <<>>]

\* What session.call_tool does: it raises, or returns a result whose content
\* is absent, a list of parts, or some other value.
ToolReplies ==
    {[type |-> "raises", err |-> ToolError, kind |-> "absent", parts |-> <<>>,
      repr |-> <<>>, content_repr |-> <<>>],
     [type |-> "result", err |-> <<>>, kind |-> "list", parts |-> <<TextPart>>,
      repr |-> <<"CallToolResult(text)">>, content_repr |-> <<"[TextContent]">>],
     [type |-> "result", err |-> <<>>, kind |-> "list", parts |-> <<ImagePart>>,
      repr |-> <<"CallToolResult(image)">>, content_repr |-> <<"[ImageContent]">>]}

\* POST /chat bodies: data.get('message', '').
\* Every turn asks a question of its own.
Utterance(k) == <<"question", ToString(k)>>
Utterances == {Utterance(k) : k \in 1..MaxTurns}
NoMessage == <<>>

\* What input() returns at the console prompt.
ConsoleInputs ==
    {<<" ">> \o u \o <<NL>> : u \in Utterances} \cup {<<>>, <<" ">>, <<" ", "EXIT", NL>>, <<"quit">>}
ExitWords == {<<"exit">>, <<"quit">>, <<"bye">>}

-----------------------------------------------------------------------------
(* format_tools_for_llm *)

\* A parameter of a tool: an entry of inputSchema['properties'].
Param(name, has_type, type, has_description, description) ==
    [name |-> name, has_type |-> has_type, type |-> type,
     has_description |-> has_description, description |-> description]

\* tool.inputSchema: missing or empty (not truthy), or a mapping that may
\* have 'properties' (its entries in order) and may have 'required'.
NoSchema ==
    [truthy |-> FALSE, has_properties |-> FALSE, properties |-> <<>>,
     has_required |-> FALSE, required |-> {}]
Schema(has_properties, properties, has_required, required) ==
    [truthy |-> TRUE, has_properties |-> has_properties, properties |-> properties,
     has_required |-> has_required, required |-> required]

Tool(name, description, inputSchema) ==
    [name |-> name, description |-> description, inputSchema |-> inputSchema]

ParamLine(schema, param) ==
    LET param_type == IF param.has_type THEN param.type ELSE "string"
        param_desc == IF param.has_description THEN <<param.description>> ELSE <<>>
        required == schema.has_required /\ param.name \in schema.required
        req_marker == IF required THEN " (required)" ELSE " (optional)"
    IN  <<"    - ", param.name, " (", param_type, ")", req_marker, ": ">>
            \o param_desc \o <<NL>>

RECURSIVE ParamLines(_, _)
ParamLines(schema, properties) ==
    IF properties = <<>> THEN <<>>
    ELSE ParamLine(schema, Head(properties)) \o ParamLines(schema, Tail(properties))

ToolEntry(tool) ==
    <<"- **", tool.name, "**: ", tool.description, NL>>
        \o (IF tool.inputSchema.truthy /\ tool.inputSchema.has_properties
            THEN <<"  Parameters:", NL>>
                    \o ParamLines(tool.inputSchema, tool.inputSchema.properties)
            ELSE <<>>)
        \o <<NL>>

RECURSIVE ToolEntries(_)
ToolEntries(tools) ==
    IF tools = <<>> THEN <<>> ELSE ToolEntry(Head(tools)) \o ToolEntries(Tail(tools))

\* Faulty variant: the tools are listed from the last to the first.
RECURSIVE ToolEntriesReversed(_)
ToolEntriesReversed(tools) ==
    IF tools = <<>> THEN <<>>
    ELSE ToolEntriesReversed(Tail(tools)) \o ToolEntry(Head(tools))

format_tools_for_llm_reversed(tools) ==
    <<"Available tools:", NL, NL>> \o ToolEntriesReversed(tools)

format_tools_for_llm(tools) == <<"Available tools:", NL, NL>> \o ToolEntries(tools)

-----------------------------------------------------------------------------
(* Arguments of the methods called on their own *)

\* Tool descriptors as list_tools gives them.
ResourceTypeParam == Param("resourceType", TRUE, "string", TRUE, "Kind of resource")
StandardParam == Param("standard", FALSE, "", FALSE, "")
RegionParam == Param("region", TRUE, "integer", FALSE, "")

PropertyLists ==
    {<<>>, <<ResourceTypeParam>>, <<StandardParam, ResourceTypeParam>>,
     <<ResourceTypeParam, RegionParam, StandardParam>>}
RequiredLists == {{}, {"resourceType"}, {"standard", "region"}}

Schemas ==
    {NoSchema, Schema(FALSE, <<>>, FALSE, {}), Schema(FALSE, <<>>, TRUE, {"standard"})}
        \cup {Schema(TRUE, properties, FALSE, {}) : properties \in PropertyLists}
        \cup {Schema(TRUE, properties, TRUE, required) :
                 properties \in PropertyLists, required \in RequiredLists}

ListBuckets(schema) == Tool("list_s3_buckets", "List the S3 buckets", schema)
CheckCompliance(schema) ==
    Tool("check_resource_compliance", "Check resources against a standard", schema)

\* client.available_tools: what list_tools gave at startup.
available_tools ==
    <<ListBuckets(Schema(TRUE, <<>>, FALSE, {})),
      CheckCompliance(Schema(TRUE, <<ResourceTypeParam, StandardParam>>, TRUE,
                             {"resourceType"}))>>

ToolLists ==
    {<<>>}
        \cup {<<ListBuckets(a)>> : a \in Schemas}
        \cup {<<ListBuckets(a), CheckCompliance(b)>> : a, b \in Schemas}
        \cup {<<CheckCompliance(b), ListBuckets(a)>> : a, b \in Schemas}

\* A JSON object: its members in order, a member being a  "key": scalar
\* pair or a key in front of a nested object.
Atom(token) == [nested |-> FALSE, token |-> token, inner |-> <<>>]
Nested(key, object) == [nested |-> TRUE, token |-> key, inner |-> object]

ResourceType == "\"resourceType\": \"storage\""
Standard == "\"standard\": \"SOC2\""
Filter == "\"filter\":"

JsonObjects ==
    {<<>>,
     <<Atom(ResourceType)>>,
     <<Atom(ResourceType), Atom(Standard)>>,
     <<Nested(Filter, <<>>)>>,
     <<Nested(Filter, <<Atom(Standard)>>)>>,
     <<Atom(ResourceType), Nested(Filter, <<Atom(Standard)>>)>>,
     <<Nested(Filter, <<Nested(Filter, <<Atom(ResourceType)>>)>>), Atom(Standard)>>}

RECURSIVE JsonEncode(_)
RECURSIVE JsonEncodeMembers(_)

\* json.dumps of an object: "{", the members joined by ", ", "}".
JsonEncode(object) == <<"{">> \o JsonEncodeMembers(object) \o <<"}">>

JsonEncodeMembers(members) ==
    IF members = <<>> THEN <<>>
    ELSE LET m == Head(members)
             text == IF m.nested
                     THEN <<m.token, " ">> \o JsonEncode(m.inner)
                     ELSE <<m.token>>
         IN  IF Len(members) = 1
             THEN text
             ELSE text \o <<",", " ">> \o JsonEncodeMembers(Tail(members))

\* The mapping an object is.
RECURSIVE Mapping(_)
Mapping(object) ==
    UNION {IF object[i].nested
           THEN Under(object[i].token, Mapping(object[i].inner))
           ELSE {<<object[i].token>>} : i \in 1..Len(object)}

\* Tool names: identifiers, one token each.
Names == {<<"list_s3_buckets">>, <<"_tool9">>}

\* 'TOOL_CALL: ' + n + ' ' + jsonEncode(a)
Invocation(n, a) == <<Marker, " ">> \o n \o <<" ">> \o JsonEncode(a)

\* Invocation lines: a name alone, a name with an object literal, with or
\* without a blank between them, and a name with a literal that is malformed.
Malformed ==
    {<<"{", "not json">>, <<"{", "}", "}">>, <<"{", Standard, ",", "}">>,
     <<"{", Filter, "{", Standard, "}">>}
Lines ==
    Names
        \cup {n \o gap \o JsonEncode(a) :
                 n \in Names, gap \in {<<>>, <<" ">>}, a \in JsonObjects}
        \cup {<<"list_s3_buckets", " ">> \o literal : literal \in Malformed}
        \cup {<<>>, <<"{", "}">>}

\* Responses built around an invocation line: prose in front of the marker,
\* blanks and newlines after it, and more text after the line.
Leads == {<<>>, <<"I will look that up.", NL>>}
Gaps == {<<>>, <<" ">>, <<NL>>, <<" ", NL, " ">>}
Trails ==
    {<<>>, <<" ">>, <<NL, "Let me know if you need more.">>,
     <<" ", NL, "{", Standard, "}">>,
     <<NL, Marker, " ", "check_resource_compliance", " ", "{", "}">>}
Framed ==
    {lead \o <<Marker>> \o gap \o line \o trail :
        lead \in Leads, gap \in Gaps, line \in Lines, trail \in Trails}

\* Every text of up to MaxTextLen tokens.
Alphabet ==
    {Marker, " ", NL, "{", "}", ",", "list_s3_buckets", Standard, Filter,
     "You have two buckets."}
Texts == UNION {[1..k -> Alphabet] : k \in 0..MaxTextLen}

Responses == Texts \cup Framed \cup {Invocation(n, a) : n \in Names, a \in JsonObjects}

\* A call: the method, its argument, the result of its last return, whether
\* it has returned, and for a method called twice the result of the call before.
NoCall ==
    [fn |-> "none", arg |-> <<>>, result |-> <<>>, returned |-> FALSE,
     again |-> FALSE, before |-> <<>>]
Call(fn, arg) == [NoCall EXCEPT !.fn = fn, !.arg = arg]

\* Replies of session.call_tool beyond those the turns are run with: no
\* content, an empty list, two parts, and content that is no list, empty or not.
SecondPart == [has_text |-> TRUE, text |-> <<"bucket-c">>]
Reply(kind, parts, repr, content_repr) ==
    [type |-> "result", err |-> <<>>, kind |-> kind, parts |-> parts,
     repr |-> repr, content_repr |-> content_repr]
AllToolReplies ==
    ToolReplies \cup
    {Reply("absent", <<>>, <<"CallToolResult()">>, <<"None">>),
     Reply("list", <<>>, <<"CallToolResult(content=[])">>, <<"[]">>),
     Reply("list", <<TextPart, SecondPart>>, <<"CallToolResult(text, text)">>,
           <<"[TextContent, TextContent]">>),
     Reply("list", <<SecondPart, ImagePart>>, <<"CallToolResult(text, image)">>,
           <<"[TextContent, ImageContent]">>),
     Reply("other", <<>>, <<"CallToolResult(content='done')">>, <<"done">>),
     Reply("empty", <<>>, <<"CallToolResult(content='')">>, <<>>)}

-----------------------------------------------------------------------------
(* CloudComplianceClient *)

Message(role, content) == [role |-> role, content |-> content]

\* The prompt process_message and chat_loop build around the tool catalog.
system_prompt == <<"You are a helpful cloud compliance assistant.">>

\* Faulty variant: the new user message is put in front of the history.
LlmMessagesUserFirst(history, user_message, prompt) ==
    (IF prompt # <<>> THEN <<Message("system", prompt)>> ELSE <<>>)
        \o <<Message("user", user_message)>> \o history

\* The messages call_llm sends: system prompt (if any), history, user message.
LlmMessages(history, user_message, prompt) ==
    (IF prompt # <<>> THEN <<Message("system", prompt)>> ELSE <<>>)
        \o history \o <<Message("user", user_message)>>

\* A call's end: a returned text, or an exception that leaves the function.
Returns(text) == [raised |-> FALSE, text |-> text]
Raises(err) == [raised |-> TRUE, text |-> err]

\* call_llm's end for an outcome of ollama.chat: every exception is caught.
call_llm(outcome) ==
    IF outcome.type = "ok"
    THEN Returns(outcome.content)
    ELSE Returns(<<"Error calling LLM: ">> \o outcome.err)

ToolErrorText(tool_name, err) ==
    <<"Error calling tool ">> \o tool_name \o <<": ">> \o err

\* Faulty variant: an exception of session.call_tool leaves call_mcp_tool.
call_mcp_tool_reraises(tool_name, result) ==
    IF result.type = "raises"
    THEN Raises(result.err)
    ELSE IF result.kind = "list" /\ Len(result.parts) > 0
         THEN IF result.parts[1].has_text
              THEN Returns(result.parts[1].text)
              ELSE Returns(ToolErrorText(tool_name, NoTextAttribute))
         ELSE IF result.kind = "other"
              THEN Returns(result.content_repr)
              ELSE Returns(result.repr)

\* Faulty variant: the error text leaves out the tool's name.
call_mcp_tool_unnamed(tool_name, result) ==
    IF result.type = "raises"
    THEN Returns(<<"Error calling tool: ">> \o result.err)
    ELSE IF result.kind = "list" /\ Len(result.parts) > 0
         THEN IF result.parts[1].has_text
              THEN Returns(result.parts[1].text)
              ELSE Returns(<<"Error calling tool: ">> \o NoTextAttribute)
         ELSE IF result.kind = "other"
              THEN Returns(result.content_repr)
              ELSE Returns(result.repr)

\* Faulty variant: content that is no list is not looked at, the whole reply
\* is rendered.
call_mcp_tool_renders_reply(tool_name, result) ==
    IF result.type = "raises"
    THEN Returns(ToolErrorText(tool_name, result.err))
    ELSE IF result.kind = "list" /\ Len(result.parts) > 0
         THEN IF result.parts[1].has_text
              THEN Returns(result.parts[1].text)
              ELSE Returns(ToolErrorText(tool_name, NoTextAttribute))
         ELSE Returns(result.repr)

\* call_mcp_tool's end for an outcome of session.call_tool: every exception,
\* that of reading .text off a part without one included, is caught.
call_mcp_tool(tool_name, result) ==
    IF result.type = "raises"
    THEN Returns(ToolErrorText(tool_name, result.err))
    ELSE IF result.kind = "list" /\ Len(result.parts) > 0
         THEN IF result.parts[1].has_text
              THEN Returns(result.parts[1].text)
              ELSE Returns(ToolErrorText(tool_name, NoTextAttribute))
         ELSE IF result.kind = "other"
              THEN Returns(result.content_repr)
              ELSE Returns(result.repr)

follow_up_prompt(tool_name, tool_result) ==
    <<"The tool '">> \o tool_name \o <<"' returned:\n">> \o tool_result
        \o <<"\n\nPlease explain these results to the user in a helpful way.">>

\* Faulty variant: the tool's text is handed on as the final answer, without the
\* narration pass.
narrate_raw(tool_name, tool_result, outcome) ==
    [raised |-> FALSE, text |-> tool_result,
     prompt |-> follow_up_prompt(tool_name, tool_result)]

\* The narration pass: the follow-up prompt is built around the tool's text
\* and call_llm's end is the turn's final answer.
narrate(tool_name, tool_result, outcome) ==
    LET llm == call_llm(outcome)
    IN  [raised |-> llm.raised, text |-> llm.text,
         prompt |-> follow_up_prompt(tool_name, tool_result)]

\* Faulty variant: the assistant message is built from the wrong variable.
CommitWrongContent(history, user_message, answer) ==
    history \o <<Message("user", user_message), Message("assistant", user_message)>>

\* Faulty variant: the history is cut to a window of the last two messages.
CommitTruncates(history, user_message, answer) ==
    <<Message("user", user_message), Message("assistant", answer)>>

\* Faulty variant: the second append is missing.
CommitUserOnly(history, user_message, answer) ==
    history \o <<Message("user", user_message)>>

\* The two appends that save a turn to the history.
Commit(history, user_message, answer) ==
    history \o <<Message("user", user_message), Message("assistant", answer)>>

\* Histories a client may hold when call_llm is called on its own, and the
\* values of its system_prompt parameter (the default is the empty string).
Histories ==
    {<<>>,
     <<Message("user", Utterance(1)), Message("assistant", DirectAnswer)>>,
     <<Message("user", Utterance(1)), Message("assistant", ToolCallWithArgs),
       Message("user", Utterance(2)), Message("assistant", DirectAnswer)>>}
Prompts == {<<>>, system_prompt}

Calls ==
    {Call("parse_tool_call", r) : r \in Responses}
        \cup {Call("call_mcp_tool", [tool_name |-> n, result |-> reply]) :
                 n \in Names, reply \in AllToolReplies}
        \cup {Call("format_tools_for_llm", tools) : tools \in ToolLists}
        \cup {Call("call_llm", [history |-> h, user_message |-> u,
                                system_prompt |-> p, outcome |-> o]) :
                 h \in Histories, u \in {Utterance(MaxTurns), DirectAnswer},
                 p \in Prompts, o \in LlmOutcomes}

-----------------------------------------------------------------------------
(* State *)

IdleTurn ==
    [pc |-> "idle",                  \* idle, scheduled, awaiting_tool, finished,
                                     \* raised, interrupted
     user_message |-> <<>>,
     llm_response |-> <<>>,          \* the decision call's output
     tool_name |-> <<>>,
     arguments |-> {},
     tool_result |-> <<>>,
     final_response |-> <<>>,        \* the return value, or the escaped error
     decision_messages |-> <<>>,     \* what the decision call sent
     narration_messages |-> <<>>,    \* what the narration call sent
     narration_output |-> <<>>,      \* what the narration call returned
     decision_outcome |-> NoOutcome, \* what ollama.chat did in the decision call
     tool_reply |-> NoToolReply,     \* what session.call_tool did
     narration_outcome |-> NoOutcome,\* what ollama.chat did in the narration call
     llm_calls |-> 0,
     tool_calls |-> 0,
     committed_at |-> 0,             \* place of the turn's assistant message
     timed_out |-> FALSE]            \* the caller's wait on the turn expired

\* What the future of a finished coroutine holds for the waiting handler.
Future(t) ==
    [IdleTurn EXCEPT !.pc = t.pc,
                     !.final_response = t.final_response,
                     !.committed_at = t.committed_at]

\* No client object yet; its fields are those __init__ sets.
NoClient ==
    [exists |-> FALSE, session |-> "None", loop |-> "None", available_tools |-> <<>>]

NoResponse == [status |-> 0, body |-> <<>>, committed_at |-> 0]

\* What a step read from a caller: data.get('message', '') of a request, or
\* the trimmed line typed at the console.
NoInput == [taken |-> FALSE, message |-> <<>>]
Input(message) == [taken |-> TRUE, message |-> message]

Response(status, body, committed_at) ==
    [status |-> status, body |-> body, committed_at |-> committed_at]

\* A slot is free when its caller was answered and its coroutine is over.
SlotFree(r) == handler[r] = "idle" /\ turn[r].pc = "idle"

Init ==
    /\ frontend \in {"flask", "console", "direct"}
    /\ call \in IF frontend = "direct" THEN Calls ELSE {NoCall}
    /\ session = "connecting"
    /\ client = NoClient
    /\ client_ready = FALSE
    /\ conversation_history = <<>>
    /\ turn = [r \in Reqs |-> IdleTurn]
    /\ handler = [r \in Reqs |-> "idle"]
    /\ last_response = NoResponse
    /\ last_input = NoInput
    /\ done = IdleTurn
    /\ nTurns = 0

-----------------------------------------------------------------------------
(* The orchestrator's steps, shared by both clients *)

\* Faulty variant: a tool that is not in the catalog is not invoked and the
\* decision response is the answer.
DecisionStepChecksCatalog(t, user_message, outcome) ==
    LET messages == LlmMessages(conversation_history, user_message, system_prompt)
        llm == call_llm(outcome)
        llm_response == llm.text
        tool_call == parse_tool_call(llm_response)
        t1 == [t EXCEPT !.user_message = user_message,
                        !.decision_messages = messages,
                        !.decision_outcome = outcome,
                        !.llm_calls = @ + 1]
        t2 == [t1 EXCEPT !.llm_response = llm_response]
    IN  IF llm.raised
        THEN [history |-> conversation_history,
              turn |-> [t1 EXCEPT !.pc = "raised", !.final_response = llm.text]]
        ELSE IF tool_call.found
                /\ \E i \in 1..Len(available_tools) :
                      <<available_tools[i].name>> = tool_call.tool_name
        THEN [history |-> conversation_history,
              turn |-> [t2 EXCEPT !.pc = "awaiting_tool",
                                  !.tool_name = tool_call.tool_name,
                                  !.arguments = tool_call.arguments,
                                  !.tool_calls = @ + 1]]
        ELSE LET history == Commit(conversation_history, user_message, llm_response)
             IN  [history |-> history,
                  turn |-> [t2 EXCEPT !.pc = "finished",
                                      !.final_response = llm_response,
                                      !.committed_at = Len(history)]]

\* From the decision call to the first await (tool turn) or to the return
\* (direct answer): call_llm, parse_tool_call, and on the direct path the commit.
DecisionStep(t, user_message, outcome) ==
    LET messages == LlmMessages(conversation_history, user_message, system_prompt)
        llm == call_llm(outcome)
        llm_response == llm.text
        tool_call == parse_tool_call(llm_response)
        t1 == [t EXCEPT !.user_message = user_message,
                        !.decision_messages = messages,
                        !.decision_outcome = outcome,
                        !.llm_calls = @ + 1]
        t2 == [t1 EXCEPT !.llm_response = llm_response]
    IN  IF llm.raised
        THEN [history |-> conversation_history,
              turn |-> [t1 EXCEPT !.pc = "raised", !.final_response = llm.text]]
        ELSE IF tool_call.found
        THEN [history |-> conversation_history,
              turn |-> [t2 EXCEPT !.pc = "awaiting_tool",
                                  !.tool_name = tool_call.tool_name,
                                  !.arguments = tool_call.arguments,
                                  !.tool_calls = @ + 1]]
        ELSE LET history == Commit(conversation_history, user_message, llm_response)
             IN  [history |-> history,
                  turn |-> [t2 EXCEPT !.pc = "finished",
                                      !.final_response = llm_response,
                                      !.committed_at = Len(history)]]

\* Faulty variant: the narration response is parsed too, and a tool call found in it
\* is carried out before the turn ends.
NarrationStepParsesAgain(t, result, outcome) ==
    LET tool == call_mcp_tool(t.tool_name, result)
        llm == narrate(t.tool_name, tool.text, outcome)
        messages == LlmMessages(conversation_history, llm.prompt, system_prompt)
        again == parse_tool_call(llm.text)
        history == Commit(conversation_history, t.user_message, llm.text)
        t2 == [t EXCEPT !.tool_reply = result,
                        !.tool_result = tool.text,
                        !.narration_messages = messages,
                        !.narration_outcome = outcome,
                        !.llm_calls = @ + 1]
    IN  IF again.found
        THEN [history |-> conversation_history,
              turn |-> [t2 EXCEPT !.pc = "awaiting_tool",
                                  !.tool_name = again.tool_name,
                                  !.arguments = again.arguments,
                                  !.tool_calls = @ + 1]]
        ELSE [history |-> history,
              turn |-> [t2 EXCEPT !.pc = "finished",
                                  !.narration_output = llm.text,
                                  !.final_response = llm.text,
                                  !.committed_at = Len(history)]]

\* Faulty variant: the tool call is started and not waited for; the follow-up
\* prompt is built before the tool's text is there.
NarrationStepDoesNotWait(t, result, outcome) ==
    LET tool == call_mcp_tool(t.tool_name, result)
        llm == narrate(t.tool_name, <<>>, outcome)
        messages == LlmMessages(conversation_history, llm.prompt, system_prompt)
        history == Commit(conversation_history, t.user_message, llm.text)
    IN  [history |-> history,
         turn |-> [t EXCEPT !.pc = "finished",
                            !.tool_reply = result,
                            !.tool_result = tool.text,
                            !.narration_messages = messages,
                            !.narration_outcome = outcome,
                            !.llm_calls = @ + 1,
                            !.narration_output = llm.text,
                            !.final_response = llm.text,
                            !.committed_at = Len(history)]]

\* From the tool's return to the coroutine's return: the rest of
\* call_mcp_tool, the narration call and the commit.
NarrationStep(t, result, outcome) ==
    LET tool == call_mcp_tool(t.tool_name, result)
        tool_result == tool.text
        llm == narrate(t.tool_name, tool_result, outcome)
        messages == LlmMessages(conversation_history, llm.prompt, system_prompt)
        final_response == llm.text
        history == Commit(conversation_history, t.user_message, final_response)
        t1 == [t EXCEPT !.tool_reply = result]
        t2 == [t1 EXCEPT !.tool_result = tool_result,
                         !.narration_messages = messages,
                         !.narration_outcome = outcome,
                         !.llm_calls = @ + 1]
    IN  IF tool.raised
        THEN [history |-> conversation_history,
              turn |-> [t1 EXCEPT !.pc = "raised", !.final_response = tool.text]]
        ELSE IF llm.raised
        THEN [history |-> conversation_history,
              turn |-> [t2 EXCEPT !.pc = "raised", !.final_response = llm.text]]
        ELSE [history |-> history,
              turn |-> [t2 EXCEPT !.pc = "finished",
                                  !.narration_output = final_response,
                                  !.final_response = final_response,
                                  !.committed_at = Len(history)]]

-----------------------------------------------------------------------------
(* mcp_client.py: the console client's own methods and the body of its loop *)

\* The prompt chat_loop builds around the tool catalog before its loop.
console_system_prompt == <<"You are a helpful cloud compliance assistant.">>

\* mcp_client.py call_llm: the messages it sends.
ConsoleLlmMessages(history, user_message, prompt) ==
    (IF prompt # <<>> THEN <<Message("system", prompt)>> ELSE <<>>)
        \o history \o <<Message("user", user_message)>>

\* mcp_client.py call_llm: its end for an outcome of ollama.chat.
console_call_llm(outcome) ==
    IF outcome.type = "ok"
    THEN Returns(outcome.content)
    ELSE Returns(<<"Error calling LLM: ">> \o outcome.err)

\* mcp_client.py call_mcp_tool: its end for an outcome of session.call_tool.
console_call_mcp_tool(tool_name, result) ==
    IF result.type = "raises"
    THEN Returns(ToolErrorText(tool_name, result.err))
    ELSE IF result.kind = "list" /\ Len(result.parts) > 0
         THEN IF result.parts[1].has_text
              THEN Returns(result.parts[1].text)
              ELSE Returns(ToolErrorText(tool_name, NoTextAttribute))
         ELSE IF result.kind = "other"
              THEN Returns(result.content_repr)
              ELSE Returns(result.repr)

\* mcp_client.py parse_tool_call.
console_parse_tool_call(llm_response) ==
    IF Contains(llm_response, Marker)
    THEN LET parts == Strip(SplitAfter(llm_response, Marker))
             tool_line == Strip(SplitBefore(parts, NL))
         IN  IF Contains(tool_line, "{")
             THEN LET tool_name == Strip(SplitBefore(tool_line, "{"))
                      json_str == <<"{">> \o SplitAfter(tool_line, "{")
                      arguments == JsonLoads(json_str)
                  IN  IF arguments.ok
                      THEN [found |-> TRUE, tool_name |-> tool_name,
                            arguments |-> arguments.value]
                      ELSE None
             ELSE [found |-> TRUE, tool_name |-> tool_line, arguments |-> {}]
    ELSE None

\* Faulty variant: the decision call is made without the system prompt.
ChatLoopDecisionStepNoPrompt(t, user_input, outcome) ==
    LET messages == ConsoleLlmMessages(conversation_history, user_input, <<>>)
        llm == console_call_llm(outcome)
        llm_response == llm.text
        tool_call == console_parse_tool_call(llm_response)
        t1 == [t EXCEPT !.user_message = user_input,
                        !.decision_messages = messages,
                        !.decision_outcome = outcome,
                        !.llm_calls = @ + 1]
        t2 == [t1 EXCEPT !.llm_response = llm_response]
    IN  IF llm.raised
        THEN [history |-> conversation_history,
              turn |-> [t1 EXCEPT !.pc = "raised", !.final_response = llm.text]]
        ELSE IF tool_call.found
        THEN [history |-> conversation_history,
              turn |-> [t2 EXCEPT !.pc = "awaiting_tool",
                                  !.tool_name = tool_call.tool_name,
                                  !.arguments = tool_call.arguments,
                                  !.tool_calls = @ + 1]]
        ELSE LET history == Commit(conversation_history, user_input, llm_response)
             IN  [history |-> history,
                  turn |-> [t2 EXCEPT !.pc = "finished",
                                      !.final_response = llm_response,
                                      !.committed_at = Len(history)]]

\* The loop body from the decision call to the await of the tool, or to the
\* end of the pass when the response holds no tool call.
ChatLoopDecisionStep(t, user_input, outcome) ==
    LET messages ==
            ConsoleLlmMessages(conversation_history, user_input, console_system_prompt)
        llm == console_call_llm(outcome)
        llm_response == llm.text
        tool_call == console_parse_tool_call(llm_response)
        t1 == [t EXCEPT !.user_message = user_input,
                        !.decision_messages = messages,
                        !.decision_outcome = outcome,
                        !.llm_calls = @ + 1]
        t2 == [t1 EXCEPT !.llm_response = llm_response]
    IN  IF llm.raised
        THEN [history |-> conversation_history,
              turn |-> [t1 EXCEPT !.pc = "raised", !.final_response = llm.text]]
        ELSE IF tool_call.found
        THEN [history |-> conversation_history,
              turn |-> [t2 EXCEPT !.pc = "awaiting_tool",
                                  !.tool_name = tool_call.tool_name,
                                  !.arguments = tool_call.arguments,
                                  !.tool_calls = @ + 1]]
        ELSE LET history == Commit(conversation_history, user_input, llm_response)
             IN  [history |-> history,
                  turn |-> [t2 EXCEPT !.pc = "finished",
                                      !.final_response = llm_response,
                                      !.committed_at = Len(history)]]

\* The loop body from the tool's return to the end of the pass.
ChatLoopNarrationStep(t, result, outcome) ==
    LET tool == console_call_mcp_tool(t.tool_name, result)
        tool_result == tool.text
        follow_up ==
            <<"The tool '">> \o t.tool_name \o <<"' returned:\n">> \o tool_result
                \o <<"\n\nPlease explain these results to the user in a helpful way.">>
        llm == console_call_llm(outcome)
        messages ==
            ConsoleLlmMessages(conversation_history, follow_up, console_system_prompt)
        final_response == llm.text
        history == Commit(conversation_history, t.user_message, final_response)
        t1 == [t EXCEPT !.tool_reply = result]
        t2 == [t1 EXCEPT !.tool_result = tool_result,
                         !.narration_messages = messages,
                         !.narration_outcome = outcome,
                         !.llm_calls = @ + 1]
    IN  IF tool.raised
        THEN [history |-> conversation_history,
              turn |-> [t1 EXCEPT !.pc = "raised", !.final_response = tool.text]]
        ELSE IF llm.raised
        THEN [history |-> conversation_history,
              turn |-> [t2 EXCEPT !.pc = "raised", !.final_response = llm.text]]
        ELSE [history |-> history,
              turn |-> [t2 EXCEPT !.pc = "finished",
                                  !.narration_output = final_response,
                                  !.final_response = final_response,
                                  !.committed_at = Len(history)]]

-----------------------------------------------------------------------------
(* mcp_client_flask.py: the background MCP thread and the /chat handler *)

\* initialize_mcp up to the end of its awaits: the session is opened and
\* initialized and the tools are listed.
InitializeMcp ==
    /\ frontend = "flask"
    /\ session = "connecting"
    /\ session' = "open"
    /\ UNCHANGED <<frontend, call, client, client_ready, conversation_history, turn,
                   handler, nTurns>>
    /\ last_response' = NoResponse
    /\ last_input' = NoInput
    /\ done' = IdleTurn

\* The assignments that follow run in the MCP thread while the handler
\* threads of the server may run between any two of them.
\* client = CloudComplianceClient()
NewClient ==
    /\ frontend = "flask"
    /\ session = "open"
    /\ ~client.exists
    /\ client' = [NoClient EXCEPT !.exists = TRUE]
    /\ conversation_history' = <<>>
    /\ UNCHANGED <<frontend, call, session, client_ready, turn, handler, nTurns>>
    /\ last_response' = NoResponse
    /\ last_input' = NoInput
    /\ done' = IdleTurn

\* client.session = session
SetSession ==
    /\ frontend = "flask"
    /\ client.exists
    /\ client.session = "None"
    /\ client' = [client EXCEPT !.session = "ClientSession"]
    /\ UNCHANGED <<frontend, call, session, client_ready, conversation_history, turn,
                   handler, nTurns>>
    /\ last_response' = NoResponse
    /\ last_input' = NoInput
    /\ done' = IdleTurn

\* client.loop = asyncio.get_event_loop()
SetLoop ==
    /\ frontend = "flask"
    /\ client.session # "None"
    /\ client.loop = "None"
    /\ client' = [client EXCEPT !.loop = "running"]
    /\ UNCHANGED <<frontend, call, session, client_ready, conversation_history, turn,
                   handler, nTurns>>
    /\ last_response' = NoResponse
    /\ last_input' = NoInput
    /\ done' = IdleTurn

\* client.available_tools = tools_result.tools
SetAvailableTools ==
    /\ frontend = "flask"
    /\ client.loop # "None"
    /\ client.available_tools = <<>>
    /\ client' = [client EXCEPT !.available_tools = available_tools]
    /\ UNCHANGED <<frontend, call, session, client_ready, conversation_history, turn,
                   handler, nTurns>>
    /\ last_response' = NoResponse
    /\ last_input' = NoInput
    /\ done' = IdleTurn

\* Faulty variant: the flag is raised as soon as the client object exists.
SetClientReadyEarly ==
    /\ frontend = "flask"
    /\ client.exists
    /\ ~client_ready
    /\ client_ready' = TRUE
    /\ UNCHANGED <<frontend, call, client, session, conversation_history, turn,
                   handler, nTurns>>
    /\ last_response' = NoResponse
    /\ last_input' = NoInput
    /\ done' = IdleTurn

\* client_ready = True, the last assignment before the sleep loop.
SetClientReady ==
    /\ frontend = "flask"
    /\ client.available_tools # <<>>
    /\ ~client_ready
    /\ client_ready' = TRUE
    /\ UNCHANGED <<frontend, call, client, session, conversation_history, turn,
                   handler, nTurns>>
    /\ last_response' = NoResponse
    /\ last_input' = NoInput
    /\ done' = IdleTurn

\* stdio_client, session.initialize or list_tools raises: the thread ends
\* and the flag stays down.
InitializeMcpFails ==
    /\ frontend = "flask"
    /\ session = "connecting"
    /\ session' = "failed"
    /\ UNCHANGED <<frontend, call, client, client_ready, conversation_history, turn, handler, nTurns>>
    /\ last_response' = NoResponse
    /\ last_input' = NoInput
    /\ done' = IdleTurn

\* Faulty variant: the test of the message is missing and every request of a
\* ready client starts a turn.
ChatTakesEmptyMessage(r, message) ==
    /\ frontend = "flask"
    /\ SlotFree(r)
    /\ \A q \in Reqs : q < r => ~SlotFree(q)
    /\ client_ready => nTurns < MaxTurns
    /\ IF ~client_ready
       THEN /\ last_response' =
                    Response(503, <<"Client not initialized yet. Please wait...">>, 0)
            /\ UNCHANGED <<turn, handler, nTurns>>
       ELSE /\ handler' = [handler EXCEPT ![r] = "waiting"]
            /\ turn' = [turn EXCEPT ![r] =
                    [IdleTurn EXCEPT !.pc = "scheduled", !.user_message = message]]
            /\ nTurns' = nTurns + 1
            /\ last_response' = NoResponse
    /\ last_input' = Input(message)
    /\ UNCHANGED <<frontend, call, client, session, client_ready, conversation_history>>
    /\ done' = IdleTurn

\* chat() up to its wait on the future: 503, 400, or the coroutine is handed
\* to the event loop.  A request takes the first free slot.
Chat(r, message) ==
    /\ frontend = "flask"
    /\ SlotFree(r)
    /\ \A q \in Reqs : q < r => ~SlotFree(q)
    /\ (client_ready /\ message # NoMessage) => nTurns < MaxTurns
    /\ IF ~client_ready
       THEN /\ last_response' =
                    Response(503, <<"Client not initialized yet. Please wait...">>, 0)
            /\ UNCHANGED <<turn, handler, nTurns>>
       ELSE IF message = NoMessage
       THEN /\ last_response' = Response(400, <<"Please provide a message">>, 0)
            /\ UNCHANGED <<turn, handler, nTurns>>
       ELSE /\ handler' = [handler EXCEPT ![r] = "waiting"]
            /\ turn' = [turn EXCEPT ![r] =
                    [IdleTurn EXCEPT !.pc = "scheduled", !.user_message = message]]
            /\ nTurns' = nTurns + 1
            /\ last_response' = NoResponse
    /\ last_input' = Input(message)
    /\ UNCHANGED <<frontend, call, client, session, client_ready, conversation_history>>
    /\ done' = IdleTurn

\* Faulty variant: the coroutine's result never reaches the future the handler
\* waits on.
ResumeLosesResult(r, res) ==
    /\ conversation_history' = res.history
    /\ done' = IF res.turn.pc = "finished" THEN res.turn ELSE IdleTurn
    /\ turn' = [turn EXCEPT ![r] =
            IF res.turn.pc \in {"finished", "raised"} THEN IdleTurn ELSE res.turn]

\* Where a step of the coroutine in slot r leaves the client: the history,
\* the record of the turn when it committed, and the coroutine (its future's
\* content once it is over, nothing when no caller waits for it any more).
Resume(r, res) ==
    /\ conversation_history' = res.history
    /\ done' = IF res.turn.pc = "finished" THEN res.turn ELSE IdleTurn
    /\ turn' = [turn EXCEPT ![r] =
            IF res.turn.pc \in {"finished", "raised"}
            THEN IF handler[r] = "waiting" THEN Future(res.turn) ELSE IdleTurn
            ELSE res.turn]

\* Faulty variant: call_llm is awaited, so the coroutine gives up the event loop
\* between the decision call and what follows it.
ProcessMessageYields(r, outcome) ==
    /\ frontend = "flask"
    /\ \/ /\ turn[r].pc = "scheduled"
          /\ turn' = [turn EXCEPT ![r].pc = "awaiting_llm",
                                  ![r].decision_outcome = outcome]
          /\ UNCHANGED conversation_history
          /\ done' = IdleTurn
       \/ /\ turn[r].pc = "awaiting_llm"
          /\ outcome = turn[r].decision_outcome
          /\ Resume(r, DecisionStep([turn[r] EXCEPT !.pc = "scheduled"],
                                    turn[r].user_message, outcome))
    /\ UNCHANGED <<frontend, call, client, session, client_ready, handler, nTurns>>
    /\ last_response' = NoResponse
    /\ last_input' = NoInput

\* The event loop starts the coroutine: process_message up to its await, or
\* to its return when the decision response holds no tool call.
ProcessMessage(r, outcome) ==
    /\ frontend = "flask"
    /\ turn[r].pc = "scheduled"
    /\ Resume(r, DecisionStep(turn[r], turn[r].user_message, outcome))
    /\ UNCHANGED <<frontend, call, client, session, client_ready, handler, nTurns>>
    /\ last_response' = NoResponse
    /\ last_input' = NoInput

\* session.call_tool returns or raises and the event loop resumes the
\* coroutine: the rest of call_mcp_tool, then process_message to its return.
ToolReturns(r, result, outcome) ==
    /\ frontend = "flask"
    /\ turn[r].pc = "awaiting_tool"
    /\ Resume(r, NarrationStep(turn[r], result, outcome))
    /\ UNCHANGED <<frontend, call, client, session, client_ready, handler, nTurns>>
    /\ last_response' = NoResponse
    /\ last_input' = NoInput

\* future.result returns the coroutine's return value (200), or raises the
\* exception that ended the coroutine (500).
ChatRespond(r) ==
    /\ frontend = "flask"
    /\ handler[r] = "waiting"
    /\ turn[r].pc \in {"finished", "raised"}
    /\ last_response' =
            IF turn[r].pc = "finished"
            THEN Response(200, turn[r].final_response, turn[r].committed_at)
            ELSE Response(500, <<"Error: ">> \o turn[r].final_response, 0)
    /\ handler' = [handler EXCEPT ![r] = "idle"]
    /\ turn' = [turn EXCEPT ![r] = IdleTurn]
    /\ UNCHANGED <<frontend, call, client, session, client_ready, conversation_history, nTurns>>
    /\ last_input' = NoInput
    /\ done' = IdleTurn

\* f'Error: {str(e)}' for the TimeoutError of future.result, whose str is empty.
TimeoutAnswer == <<"Error: ">>

\* future.result(timeout=300) raises TimeoutError; the coroutine is not
\* cancelled.
ChatTimeout(r) ==
    /\ frontend = "flask"
    /\ handler[r] = "waiting"
    /\ turn[r].pc \in {"scheduled", "awaiting_tool"}
    /\ last_response' = Response(500, TimeoutAnswer, 0)
    /\ handler' = [handler EXCEPT ![r] = "idle"]
    /\ turn' = [turn EXCEPT ![r].timed_out = TRUE]
    /\ UNCHANGED <<frontend, call, client, session, client_ready, conversation_history, nTurns>>
    /\ last_input' = NoInput
    /\ done' = IdleTurn

-----------------------------------------------------------------------------
(* mcp_client.py: chat_loop, one caller, slot 1 *)

Console == 1

\* chat_loop up to its first input(): the session is opened, the tools listed.
ChatLoopConnect ==
    /\ frontend = "console"
    /\ session = "connecting"
    /\ session' = "open"
    /\ UNCHANGED <<frontend, call, client, client_ready, conversation_history, turn, handler, nTurns>>
    /\ last_response' = NoResponse
    /\ last_input' = NoInput
    /\ done' = IdleTurn

ChatLoopConnectFails ==
    /\ frontend = "console"
    /\ session = "connecting"
    /\ session' = "failed"
    /\ UNCHANGED <<frontend, call, client, client_ready, conversation_history, turn, handler, nTurns>>
    /\ last_response' = NoResponse
    /\ last_input' = NoInput
    /\ done' = IdleTurn

\* Where a step of a turn leaves the console: the answer printed and the pair
\* saved, the error printed by "except Exception", or the await of the tool.
ConsoleResume(res) ==
    /\ conversation_history' = res.history
    /\ done' = IF res.turn.pc = "finished" THEN res.turn ELSE IdleTurn
    /\ IF res.turn.pc = "finished"
       THEN /\ last_response' =
                    Response(0, res.turn.final_response, res.turn.committed_at)
            /\ turn' = [turn EXCEPT ![Console] = IdleTurn]
            /\ handler' = [handler EXCEPT ![Console] = "idle"]
       ELSE IF res.turn.pc = "raised"
       THEN /\ last_response' =
                    Response(0, <<"Error: ">> \o res.turn.final_response, 0)
            /\ turn' = [turn EXCEPT ![Console] = IdleTurn]
            /\ handler' = [handler EXCEPT ![Console] = "idle"]
       ELSE /\ turn' = [turn EXCEPT ![Console] = res.turn]
            /\ handler' = [handler EXCEPT ![Console] = "waiting"]
            /\ last_response' = NoResponse

\* One pass of the loop from input() to the await of the tool, or to the end
\* of the pass: exit word, empty input, or a turn.
ConsoleInput(raw, outcome) ==
    /\ frontend = "console"
    /\ session = "open"
    /\ turn[Console].pc = "idle"
    /\ LET user_input == Strip(raw)
       IN  IF Lower(user_input) \in ExitWords
           THEN /\ session' = "closed"
                /\ UNCHANGED <<conversation_history, turn, handler, nTurns>>
                /\ last_response' = NoResponse
                /\ done' = IdleTurn
           ELSE IF user_input = <<>>
           THEN /\ UNCHANGED <<session, conversation_history, turn, handler, nTurns>>
                /\ last_response' = NoResponse
                /\ done' = IdleTurn
           ELSE /\ nTurns < MaxTurns
                /\ ConsoleResume(ChatLoopDecisionStep(IdleTurn, user_input, outcome))
                /\ nTurns' = nTurns + 1
                /\ UNCHANGED session
    /\ last_input' = Input(Strip(raw))
    /\ UNCHANGED <<frontend, call, client, client_ready>>

\* The tool call returns or raises: narration, print, commit, back to input().
ConsoleToolReturns(result, outcome) ==
    /\ frontend = "console"
    /\ session = "open"
    /\ turn[Console].pc = "awaiting_tool"
    /\ ConsoleResume(ChatLoopNarrationStep(turn[Console], result, outcome))
    /\ last_input' = NoInput
    /\ UNCHANGED <<frontend, call, client, session, client_ready, nTurns>>

\* Ctrl-C at the prompt or in the middle of a turn: "Goodbye!" and break.
KeyboardInterrupt ==
    /\ frontend = "console"
    /\ session = "open"
    /\ session' = "closed"
    /\ turn' = [turn EXCEPT ![Console].pc =
                    IF @ = "awaiting_tool" THEN "interrupted" ELSE @]
    /\ UNCHANGED <<frontend, call, client, client_ready, conversation_history, handler, nTurns>>
    /\ last_response' = NoResponse
    /\ last_input' = NoInput
    /\ done' = IdleTurn

-----------------------------------------------------------------------------
(* The client's methods called on their own *)

ParseToolCall ==
    /\ frontend = "direct"
    /\ call.fn = "parse_tool_call"
    /\ ~call.returned
    /\ call' = [call EXCEPT !.result = parse_tool_call(call.arg), !.returned = TRUE]
    /\ UNCHANGED <<frontend, client, session, client_ready, conversation_history, turn,
                   handler, done, nTurns>>
    /\ last_response' = NoResponse
    /\ last_input' = NoInput

\* call_mcp_tool from its call of session.call_tool to its return.
CallMcpTool ==
    /\ frontend = "direct"
    /\ call.fn = "call_mcp_tool"
    /\ ~call.returned
    /\ call' = [call EXCEPT !.result = call_mcp_tool(call.arg.tool_name, call.arg.result),
                            !.returned = TRUE]
    /\ UNCHANGED <<frontend, client, session, client_ready, conversation_history, turn,
                   handler, done, nTurns>>
    /\ last_response' = NoResponse
    /\ last_input' = NoInput

\* format_tools_for_llm, called a first and a second time on the same tools.
FormatToolsForLlm ==
    /\ frontend = "direct"
    /\ call.fn = "format_tools_for_llm"
    /\ ~call.again
    /\ call' = [call EXCEPT !.result = format_tools_for_llm(call.arg),
                            !.returned = TRUE,
                            !.again = call.returned,
                            !.before = call.result]
    /\ UNCHANGED <<frontend, client, session, client_ready, conversation_history, turn,
                   handler, done, nTurns>>
    /\ last_response' = NoResponse
    /\ last_input' = NoInput

\* call_llm on a client that holds call.arg.history: the messages handed to
\* ollama.chat and the text returned.
CallLlm ==
    /\ frontend = "direct"
    /\ call.fn = "call_llm"
    /\ ~call.returned
    /\ call' = [call EXCEPT
            !.result = [messages |-> LlmMessages(call.arg.history, call.arg.user_message,
                                                 call.arg.system_prompt),
                        text |-> call_llm(call.arg.outcome).text],
            !.returned = TRUE]
    /\ UNCHANGED <<frontend, client, session, client_ready, conversation_history, turn,
                   handler, done, nTurns>>
    /\ last_response' = NoResponse
    /\ last_input' = NoInput

-----------------------------------------------------------------------------

Next ==
    \/ InitializeMcp
    \/ NewClient
    \/ SetSession
    \/ SetLoop
    \/ SetAvailableTools
    \/ SetClientReady
    \/ InitializeMcpFails
    \/ \E r \in Reqs, message \in {Utterance(nTurns + 1), NoMessage} : Chat(r, message)
    \/ \E r \in Reqs, outcome \in DecisionOutcomes : ProcessMessage(r, outcome)
    \/ \E r \in Reqs, result \in ToolReplies, outcome \in LlmOutcomes :
          ToolReturns(r, result, outcome)
    \/ \E r \in Reqs : ChatRespond(r)
    \/ \E r \in Reqs : ChatTimeout(r)
    \/ ChatLoopConnect
    \/ ChatLoopConnectFails
    \/ \E raw \in ConsoleInputs, outcome \in DecisionOutcomes :
          /\ Strip(raw) \in Utterances => Strip(raw) = Utterance(nTurns + 1)
          /\ ConsoleInput(raw, outcome)
    \/ \E result \in ToolReplies, outcome \in LlmOutcomes :
          ConsoleToolReturns(result, outcome)
    \/ KeyboardInterrupt
    \/ ParseToolCall
    \/ CallMcpTool
    \/ FormatToolsForLlm
    \/ CallLlm

Spec == Init /\ [][Next]_vars

\* What the scheduling guarantees: the event loop runs a ready coroutine, an
\* external call returns or fails, and a caller's wait ends.
TurnStep(r) ==
    \/ \E outcome \in DecisionOutcomes : ProcessMessage(r, outcome)
    \/ \E result \in ToolReplies, outcome \in LlmOutcomes : ToolReturns(r, result, outcome)
    \/ ChatRespond(r)
    \/ \E result \in ToolReplies, outcome \in LlmOutcomes :
          r = Console /\ ConsoleToolReturns(result, outcome)

FairSpec == Spec /\ \A r \in Reqs : WF_vars(TurnStep(r))

-----------------------------------------------------------------------------
(* Properties *)

\* The history a turn's decision call read: its messages without the system
\* prompt in front and the utterance at the end.
HistoryAtCall(t) == SubSeq(t.decision_messages, 2, Len(t.decision_messages) - 1)

\* A turn is in flight from its decision call until its commit.
InFlight(r) == turn[r].pc = "awaiting_tool"

\* The turn the last step committed saved its pair at the end of the history.
PairSaved(t) ==
    /\ t.committed_at = Len(conversation_history)
    /\ t.committed_at >= 2
    /\ conversation_history[t.committed_at - 1] = Message("user", t.user_message)
    /\ conversation_history[t.committed_at] = Message("assistant", t.final_response)

\* C1 (as stated): after a successful submit the history is the history before the call
\* (the one the decision call read) with exactly two messages appended: the
\* user message holding the utterance, then an assistant message.
C1_TurnCommit ==
    done.pc = "finished" =>
        LET before == HistoryAtCall(done)
            n == Len(before)
        IN  /\ Len(conversation_history) = n + 2
            /\ SubSeq(conversation_history, 1, n) = before
            /\ conversation_history[n + 1] = Message("user", done.user_message)
            /\ conversation_history[n + 2].role = "assistant"

\* C2 (as stated): at no reachable state are two turns in flight against the same client.
C2_TurnsSerialized == Cardinality({r \in Reqs : InFlight(r)}) <= 1

Started(k) ==
    \E r \in Reqs : turn[r].user_message = Utterance(k) /\ turn[r].pc = "awaiting_tool"

Committed(k) ==
    \E i \in 1..Len(conversation_history) :
        conversation_history[i] = Message("user", Utterance(k))

Interrupted(k) ==
    \E r \in Reqs : turn[r].user_message = Utterance(k) /\ turn[r].pc = "interrupted"

\* C3 (as stated): no path abandons a started turn without committing,
\* whatever interruption occurs: no turn whose decision call was issued is
\* ever left dead with its pair unsaved.
C3_StartedTurnNeverAbandoned == \A r \in Reqs : turn[r].pc # "interrupted"

\* C3 (amended): once a turn's decision call has been issued, and with every
\* external call returning or failing, the turn eventually appends its pair,
\* whatever the external calls' outcomes and whatever caller timeout occurs,
\* unless Ctrl-C ends the console loop in the middle of the turn.
C3_StartedTurnCommits ==
    \A k \in 1..MaxTurns : Started(k) ~> (Committed(k) \/ Interrupted(k))

\* A turn has committed although its tool call raised and its caller's wait
\* had expired.
C3_Witness ==
    /\ done.pc = "finished"
    /\ done.timed_out
    /\ done.tool_reply.type = "raises"

\* An answer given for a committed turn is that turn's assistant message.
AnswerIsCommitted ==
    /\ last_response.status = 200 => last_response.committed_at > 0
    /\ last_response.committed_at > 0 =>
          /\ last_response.committed_at <= Len(conversation_history)
          /\ conversation_history[last_response.committed_at]
                = Message("assistant", last_response.body)

\* C4 (as stated): for every turn the answer returned to the caller is the
\* string committed as the turn's assistant message, also when the caller's
\* wait on the turn expired (the caller was then answered "Error: ").
C4_AnswerIsCommittedAlways ==
    /\ AnswerIsCommitted
    /\ (done.pc = "finished" /\ done.timed_out) => done.final_response = TimeoutAnswer

\* C4 (amended): for every turn whose caller's wait did not expire, the
\* answer returned to the caller (status 200, or printed at the console) is
\* the string committed as that turn's assistant message.
C4_AnswerIsCommittedUnlessTimedOut == AnswerIsCommitted

\* A second turn was answered with status 200.
C4_Witness ==
    /\ last_response.status = 200
    /\ last_response.committed_at = 4

\* The backend call failed: it raised, or its first part has no text.
ToolFailed(reply) ==
    \/ reply.type = "raises"
    \/ reply.type = "result" /\ reply.kind = "list" /\ Len(reply.parts) > 0
          /\ ~reply.parts[1].has_text

ToolFailure(reply) == IF reply.type = "raises" THEN reply.err ELSE NoTextAttribute

\* C5: when the backend call fails, call_mcp_tool does not raise (no turn ends
\* by an exception); it returns 'Error calling tool <name>: <message>', that
\* text is quoted in the follow-up prompt of the narration call, and the turn
\* returns a final answer and saves its two messages.
C5_ToolFailureIsNarrated ==
    /\ \A r \in Reqs : turn[r].pc # "raised"
    /\ (done.pc = "finished" /\ ToolFailed(done.tool_reply)) =>
          /\ done.tool_result =
                <<"Error calling tool ">> \o done.tool_name \o <<": ">>
                    \o ToolFailure(done.tool_reply)
          /\ done.narration_messages[Len(done.narration_messages)] =
                Message("user", follow_up_prompt(done.tool_name, done.tool_result))
          /\ done.final_response # <<>>
          /\ PairSaved(done)

C5_Witness ==
    /\ done.pc = "finished"
    /\ done.tool_reply.type = "result"
    /\ ToolFailed(done.tool_reply)
    /\ done.narration_outcome.type = "ok"

\* C6 (as stated): when the decision call raises, whatever the message, the
\* turn's final answer is 'Error calling LLM: <message>' and that string is
\* saved as the assistant message after the user message.
C6_DecisionErrorIsAnswer ==
    (done.pc = "finished" /\ done.decision_outcome.type = "raises") =>
        /\ done.final_response = <<"Error calling LLM: ">> \o done.decision_outcome.err
        /\ PairSaved(done)

\* C7: every submitted utterance is eventually answered with a text, whatever
\* the LLM and the tool do, provided they return or fail; a caller stops
\* waiting only by an answer or, at the console, by ending the session.
C7_EveryUtteranceAnswered ==
    /\ [](last_response # NoResponse => last_response.body # <<>>)
    /\ \A r \in Reqs :
          (handler[r] = "waiting") ~> (handler[r] = "idle" \/ session = "closed")

\* A caller was answered with the LLM's error text.
C7_Witness ==
    /\ last_response.status = 200
    /\ last_response.body = <<"Error calling LLM: ", "connection refused">>

\* C8: a turn makes one LLM call and no tool call when the parser finds no
\* invocation in the decision response, two LLM calls and one tool call when
\* it finds one, and never more; the narration response is not parsed.
C8_CallsPerTurn ==
    /\ \A r \in Reqs : turn[r].llm_calls <= 2 /\ turn[r].tool_calls <= 1
    /\ done.pc = "finished" =>
          IF parse_tool_call(done.llm_response).found
          THEN done.llm_calls = 2 /\ done.tool_calls = 1
          ELSE done.llm_calls = 1 /\ done.tool_calls = 0

\* A turn has ended after one tool call although its narration holds the marker.
C8_Witness ==
    /\ done.pc = "finished"
    /\ done.tool_calls = 1
    /\ Contains(done.final_response, Marker)
    /\ parse_tool_call(done.final_response).found

\* What the narration call of a turn gave: the model's response, or the
\* error-description string of the failed call.
NarrationOutput(t) ==
    IF t.narration_outcome.type = "ok"
    THEN t.narration_outcome.content
    ELSE <<"Error calling LLM: ">> \o t.narration_outcome.err

\* C9: whenever a tool was invoked in a turn, the final answer and the
\* committed assistant content are the output of the narration call (its
\* response or its error-description string), not the text the tool session
\* returned, which goes into the follow-up prompt sent to the LLM.
C9_ToolTextIsNarrated ==
    (done.pc = "finished" /\ done.tool_calls > 0) =>
        /\ done.tool_result = call_mcp_tool(done.tool_name, done.tool_reply).text
        /\ done.final_response = NarrationOutput(done)
        /\ conversation_history[Len(conversation_history)] =
              Message("assistant", NarrationOutput(done))
        /\ done.narration_messages[Len(done.narration_messages)] =
              Message("user", follow_up_prompt(done.tool_name, done.tool_result))

C9_Witness ==
    /\ done.pc = "finished"
    /\ done.tool_calls = 1
    /\ done.tool_result = ToolText
    /\ done.narration_outcome.type = "ok"

\* C10: in every reachable state the history has even length and its roles
\* alternate user, assistant from the first message on, and a turn's two
\* messages stand next to each other.
C10_PairsAlternate ==
    /\ Len(conversation_history) % 2 = 0
    /\ \A i \in 1..Len(conversation_history) :
          conversation_history[i].role = IF i % 2 = 1 THEN "user" ELSE "assistant"
    /\ done.pc = "finished" => PairSaved(done)

\* Two turns overlapped and both have committed: the one that committed last
\* had read an empty history.
C10_Witness ==
    /\ frontend = "flask"
    /\ Len(conversation_history) = 4
    /\ done.pc = "finished"
    /\ HistoryAtCall(done) = <<>>

IsPrefix(s, t) == Len(s) <= Len(t) /\ SubSeq(t, 1, Len(s)) = s

\* C11: the history starts empty and every step leaves the history it found
\* as a prefix of the history it leaves; only a step that commits a turn
\* extends it, by that turn's user message and assistant message.
C11_AppendOnly ==
    /\ conversation_history = <<>>
    /\ [][/\ IsPrefix(conversation_history, conversation_history')
          /\ conversation_history' # conversation_history =>
                /\ done'.pc = "finished"
                /\ conversation_history' = conversation_history \o
                      <<Message("user", done'.user_message),
                        Message("assistant", done'.final_response)>>]_vars

\* A commit has extended a history that already held a pair.
C11_Witness ==
    /\ done.pc = "finished"
    /\ Len(conversation_history) = 4
    /\ done.tool_calls = 1

\* parse_tool_call was called on its own and has returned.
Parsed == frontend = "direct" /\ call.fn = "parse_tool_call" /\ call.returned

\* C12: for every tool name n and JSON object a, parse_tool_call applied to
\* 'TOOL_CALL: ' + n + ' ' + jsonEncode(a) returns the invocation whose tool
\* name is n and whose argument mapping is a.
C12_ParserRoundTrip ==
    \A n \in Names, a \in JsonObjects :
        (Parsed /\ call.arg = Invocation(n, a)) =>
            call.result = [found |-> TRUE, tool_name |-> n, arguments |-> Mapping(a)]

\* An invocation with a nested object was parsed.
C12_Witness ==
    /\ Parsed
    /\ call.arg = Invocation(<<"_tool9">>,
                      <<Atom(ResourceType), Nested(Filter, <<Atom(Standard)>>)>>)
    /\ call.result.found

HasMalformedLiteral(text) ==
    /\ Contains(text, Marker)
    /\ LET line == SplitBefore(SplitAfter(text, Marker), NL)
       IN  /\ Contains(line, "{")
           /\ ~JsonLoads(<<"{">> \o SplitAfter(line, "{")).ok

\* C14: for a malformed argument literal parse_tool_call returns nothing and
\* raises nothing; a turn whose decision response has one invokes no tool,
\* makes no narration call and returns and commits the decision text as it
\* is, marker included.
C14_MalformedLiteralIsDirectAnswer ==
    /\ \A r \in Reqs : turn[r].pc # "raised"
    /\ (Parsed /\ HasMalformedLiteral(call.arg)) => call.result = None
    /\ (done.pc = "finished" /\ HasMalformedLiteral(done.llm_response)) =>
          /\ done.final_response = done.llm_response
          /\ Contains(done.final_response, Marker)
          /\ done.tool_calls = 0
          /\ done.llm_calls = 1
          /\ done.narration_messages = <<>>
          /\ PairSaved(done)

\* A turn has ended on a decision response with a malformed literal.
C14_Witness ==
    /\ done.pc = "finished"
    /\ done.llm_response = MalformedCall
    /\ conversation_history[Len(conversation_history)] = Message("assistant", MalformedCall)

\* The text up to the first newline that stands after the first marker.
CutAtFirstNewline(text) ==
    SubSeq(text, 1, IndexOf(text, Marker)) \o SplitBefore(SplitAfter(text, Marker), NL)

\* The text up to the first newline that stands after the first token other
\* than a blank or a newline after the first marker.
CutAtLineEnd(text) ==
    LET remainder == SplitAfter(text, Marker)
        skipped == Len(remainder) - Len(LStrip(remainder))
    IN  SubSeq(text, 1, IndexOf(text, Marker) + skipped)
            \o SplitBefore(LStrip(remainder), NL)

\* C15 (as stated): the first newline after the first marker ends the
\* invocation: what parse_tool_call returns is what it returns for the text
\* cut at that newline.
C15_FirstNewlineEndsInvocation ==
    (Parsed /\ Contains(call.arg, Marker)) =>
        call.result = parse_tool_call(CutAtFirstNewline(call.arg))

\* C15 (amended): blanks and newlines right after the first marker are
\* skipped, and the first newline after that ends the invocation: what
\* parse_tool_call returns is what it returns for the text cut there.
C15_LineEndEndsInvocation ==
    (Parsed /\ Contains(call.arg, Marker)) =>
        call.result = parse_tool_call(CutAtLineEnd(call.arg))

\* The tool name stood on the line after the marker's own line, and prose
\* followed it.
C15_Witness ==
    /\ Parsed
    /\ call.arg = <<Marker, NL, "list_s3_buckets", NL, "Let me know if you need more.">>
    /\ call.result.tool_name = <<"list_s3_buckets">>

\* The invocation line of a text with the marker.
InvocationLine(text) == Strip(SplitBefore(Strip(SplitAfter(text, Marker)), NL))

\* C16: a line without "{" gives an invocation whose name is the whole
\* trimmed line and whose arguments are empty; a line with "{" gives, when it
\* gives an invocation, the trimmed text before the first "{" as the name and
\* the object read from the first "{" to the end of the line as arguments.
C16_NameAndArguments ==
    (Parsed /\ Contains(call.arg, Marker)) =>
        LET line == InvocationLine(call.arg)
            literal == JsonLoads(<<"{">> \o SplitAfter(line, "{"))
        IN  IF ~Contains(line, "{")
            THEN call.result = [found |-> TRUE, tool_name |-> line, arguments |-> {}]
            ELSE /\ call.result.found = literal.ok
                 /\ call.result.found =>
                       /\ call.result.tool_name = Strip(SplitBefore(line, "{"))
                       /\ call.result.arguments = literal.value
                       /\ \A m \in call.result.arguments : m \in Seq(Members \cup Keys \cup {EmptyObject})

\* A line without arguments was parsed, prose around it.
C16_Witness ==
    /\ Parsed
    /\ call.arg = <<"I will look that up.", NL, Marker, " ", "list_s3_buckets", " ">>
    /\ call.result = [found |-> TRUE, tool_name |-> <<"list_s3_buckets">>, arguments |-> {}]

\* call_mcp_tool was called on its own and has returned.
Invoked == frontend = "direct" /\ call.fn = "call_mcp_tool" /\ call.returned

\* C17: for a reply of the backend, call_mcp_tool returns the text of the first
\* part when the content is a list that is not empty, the string form of the
\* content when the content is not empty and no list, and the string form of
\* the whole reply when there is no content or the content is empty.
C17_ReplyNormalized ==
    (Invoked /\ call.arg.result.type = "result") =>
        LET reply == call.arg.result
        IN  /\ ~call.result.raised
            /\ (reply.kind = "list" /\ reply.parts # <<>> /\ reply.parts[1].has_text) =>
                  call.result.text = reply.parts[1].text
            /\ reply.kind = "other" => call.result.text = reply.content_repr
            /\ (reply.kind \in {"absent", "empty"} \/ (reply.kind = "list" /\ reply.parts = <<>>)) =>
                  call.result.text = reply.repr

\* Content that is no list was rendered.
C17_Witness ==
    /\ Invoked
    /\ call.arg.result.kind = "other"
    /\ call.result.text = <<"done">>

\* format_tools_for_llm was called on its own and has returned.
Formatted == frontend = "direct" /\ call.fn = "format_tools_for_llm" /\ call.returned

ToolBullet == "- **"
ParamBullet == "    - "

\* The names a description lists: the tokens that stand right after a bullet.
RECURSIVE Outline(_)
Outline(text) ==
    IF Len(text) < 2 THEN <<>>
    ELSE IF Head(text) \in {ToolBullet, ParamBullet}
         THEN <<text[2]>> \o Outline(Tail(text))
         ELSE Outline(Tail(text))

\* The parameters a tool declares, in the order of its schema.
Declared(tool) ==
    IF tool.inputSchema.truthy /\ tool.inputSchema.has_properties
    THEN tool.inputSchema.properties
    ELSE <<>>

\* The names of the tools, each followed by the names of its parameters.
RECURSIVE NamesInOrder(_)
NamesInOrder(tools) ==
    IF tools = <<>> THEN <<>>
    ELSE <<Head(tools).name>>
            \o [i \in 1..Len(Declared(Head(tools))) |-> Declared(Head(tools))[i].name]
            \o NamesInOrder(Tail(tools))

\* C19: format_tools_for_llm lists the tools, and under each tool its
\* parameters, in the order of the descriptor sequence and of the schema; a
\* second call on the same sequence returns the same text; the client's state
\* is as it was before the calls.
C19_CatalogInOrder ==
    Formatted =>
        /\ Outline(call.result) = NamesInOrder(call.arg)
        /\ call.again => call.result = call.before
        /\ conversation_history = <<>>
        /\ turn = [r \in Reqs |-> IdleTurn]
        /\ session = "connecting" /\ ~client_ready

\* Two tools with parameters were described twice.
C19_Witness ==
    /\ Formatted
    /\ call.again
    /\ Len(call.arg) = 2
    /\ call.arg[1].name = "check_resource_compliance"
    /\ Len(Declared(call.arg[1])) = 3
    /\ Len(Declared(call.arg[2])) = 2

\* The part of a description that is about its i-th tool.
EntryOf(text, i) ==
    LET bullets == {j \in 1..Len(text) : text[j] = ToolBullet}
        start(k) == CHOOSE j \in bullets : Cardinality({b \in bullets : b < j}) = k - 1
        end == IF i = Cardinality(bullets) THEN Len(text) ELSE start(i + 1) - 1
    IN  SubSeq(text, start(i), end)

\* s has the tokens of line, one after the other.
HasLine(s, line) ==
    \E j \in 0..(Len(s) - Len(line)) : SubSeq(s, j + 1, j + Len(line)) = line

\* C20 (as stated): every parameter of a tool is listed with its declared
\* type, 'string' when it declares none, and with '(required)' when its name
\* is in the tool's required set, '(optional)' when it is not or there is no
\* such set; a parameter list is in a tool's entry only if the tool declares
\* parameters.
C20_ParameterLines ==
    Formatted =>
        \A i \in 1..Len(call.arg) :
            LET tool == call.arg[i]
                schema == tool.inputSchema
                entry == EntryOf(call.result, i)
            IN  /\ \A k \in 1..Len(Declared(tool)) :
                      LET param == Declared(tool)[k]
                      IN  HasLine(entry,
                              <<ParamBullet, param.name, " (",
                                IF param.has_type THEN param.type ELSE "string", ")",
                                IF schema.has_required /\ param.name \in schema.required
                                THEN " (required)" ELSE " (optional)">>)
                /\ Contains(entry, "  Parameters:") => Declared(tool) # <<>>

\* The tool is not in the catalog obtained at startup.
Unknown(tool_name) ==
    \A i \in 1..Len(available_tools) : <<available_tools[i].name>> # tool_name

\* C18: a tool name that is not in the catalog is not turned down: the
\* backend is invoked with the name and the arguments the parser gave, and
\* what it replies, result or error, is made a text and narrated.
C18_UnknownToolIsInvoked ==
    /\ \A r \in Reqs :
          turn[r].pc = "awaiting_tool" =>
              /\ parse_tool_call(turn[r].llm_response).found
              /\ turn[r].tool_name = parse_tool_call(turn[r].llm_response).tool_name
              /\ turn[r].arguments = parse_tool_call(turn[r].llm_response).arguments
    /\ LET invocation == parse_tool_call(done.llm_response)
       IN  (done.pc = "finished" /\ invocation.found /\ Unknown(invocation.tool_name)) =>
              /\ done.tool_calls = 1
              /\ done.tool_name = invocation.tool_name
              /\ done.arguments = invocation.arguments
              /\ done.tool_result = call_mcp_tool(done.tool_name, done.tool_reply).text
              /\ done.narration_messages[Len(done.narration_messages)] =
                    Message("user", follow_up_prompt(done.tool_name, done.tool_result))
              /\ done.final_response = NarrationOutput(done)
              /\ PairSaved(done)

\* A tool that is not in the catalog was invoked, the backend's call failed
\* and the failure was narrated.
C18_Witness ==
    /\ done.pc = "finished"
    /\ done.tool_name = <<"restart_cluster">>
    /\ Unknown(done.tool_name)
    /\ done.tool_reply.type = "raises"
    /\ done.narration_outcome.type = "ok"

\* The history a turn's narration call read: its messages without the system
\* prompt in front and the follow-up prompt at the end.
HistoryAtNarration(t) ==
    SubSeq(t.narration_messages, 2, Len(t.narration_messages) - 1)

\* C21 (as stated): for every turn that invokes a tool, the history given to
\* the narration call is the same sequence of messages that was given to the
\* turn's decision call, also when other requests are processed while the
\* tool call is awaited.
C21_NarrationReadsDecisionHistory ==
    (done.pc = "finished" /\ done.tool_calls > 0) =>
        HistoryAtNarration(done) = HistoryAtCall(done)

\* The decision call of turn a was issued before that of turn b, as far as
\* the two records tell: b's decision call and commit are one step that
\* found a waiting for its tool, or a's decision call read a shorter history
\* than b's.
DecidedBefore(a, b) ==
    \/ b.tool_calls = 0
    \/ Len(a.decision_messages) < Len(b.decision_messages)

\* C22 (as stated): pairs are committed in the order of their turns' decision
\* calls, for every interleaving of concurrent requests: when the pair of a
\* turn is appended, the pair of every turn whose decision call was issued
\* before that turn's is in the history already.
C22_PairsInDecisionOrder ==
    done.pc = "finished" =>
        \A r \in Reqs :
            (turn[r].pc = "awaiting_tool" /\ DecidedBefore(turn[r], done)) =>
                \E i \in 1..(done.committed_at - 2) :
                    conversation_history[i] =
                        [role |-> "user", content |-> turn[r].user_message]

\* The messages of one LLM call are in order: the system prompt when it is
\* not empty, the messages of the history one by one, one user message.
InOrder(messages, prompt, history, last) ==
    LET lead == IF prompt # <<>> THEN 1 ELSE 0
    IN  /\ Len(messages) = lead + Len(history) + 1
        /\ lead = 1 => messages[1] = [role |-> "system", content |-> prompt]
        /\ \A i \in 1..Len(history) : messages[lead + i] = history[i]
        /\ messages[Len(messages)] = [role |-> "user", content |-> last]

\* The history a turn that has just committed found at its last LLM call.
HistoryBeforePair(t) == SubSeq(conversation_history, 1, t.committed_at - 2)

\* The follow-up prompt quotes the tool's name and the tool's text.
Quotes(prompt, tool_name, tool_result) ==
    /\ \E i \in 1..(Len(prompt) - Len(tool_name) + 1) :
          SubSeq(prompt, i, i + Len(tool_name) - 1) = tool_name
    /\ \E i \in 1..(Len(prompt) - Len(tool_result) + 1) :
          SubSeq(prompt, i, i + Len(tool_result) - 1) = tool_result

\* C23: every LLM call is sent the system prompt (when not empty), then the
\* committed history in order, then one user message, which is the utterance
\* in the decision call and the follow-up prompt with the tool's name and
\* result in the narration call; the narration call is sent neither the
\* turn's utterance nor the decision response as messages of their own.
C23_LlmMessagesInOrder ==
    /\ [](done.pc = "finished" /\ done.tool_calls = 0 =>
            InOrder(done.decision_messages, system_prompt, HistoryBeforePair(done),
                    done.user_message))
    /\ [](done.pc = "finished" /\ done.tool_calls > 0 =>
            LET sent == done.narration_messages
                last == sent[Len(sent)].content
            IN  /\ InOrder(sent, system_prompt, HistoryBeforePair(done), last)
                /\ Quotes(last, done.tool_name, done.tool_result)
                /\ \A i \in 1..Len(sent) : sent[i].content # done.user_message
                /\ Len(sent) = Len(HistoryBeforePair(done)) + 2)
    /\ [][\A r \in Reqs :
            (turn[r].pc # "awaiting_tool" /\ turn'[r].pc = "awaiting_tool") =>
                InOrder(turn'[r].decision_messages, system_prompt,
                        conversation_history, turn'[r].user_message)]_vars
    /\ [](frontend = "direct" /\ call.fn = "call_llm" /\ call.returned =>
            InOrder(call.result.messages, call.arg.system_prompt,
                    call.arg.history, call.arg.user_message))

\* A narration call was sent a history that is not empty, after a decision
\* call that was sent the same utterance and an empty history.
C23_Witness ==
    /\ done.pc = "finished"
    /\ done.tool_calls > 0
    /\ Len(done.narration_messages) > 2
    /\ Len(done.decision_messages) = 2

\* The turn's pair is in the history.
Saved(t) ==
    \E i \in 1..Len(conversation_history) :
        conversation_history[i] = [role |-> "user", content |-> t.user_message]

\* A turn that waits for its tool: the decision call has returned, its
\* response was parsed to the invocation under way, and neither the narration
\* call nor the commit has happened.
ToolAfterDecision(t) ==
    /\ t.llm_calls = 1 /\ t.tool_calls = 1
    /\ t.decision_outcome # NoOutcome
    /\ t.llm_response = call_llm(t.decision_outcome).text
    /\ parse_tool_call(t.llm_response).found
    /\ t.tool_name = parse_tool_call(t.llm_response).tool_name
    /\ t.tool_reply = NoToolReply
    /\ t.narration_messages = <<>> /\ t.narration_outcome = NoOutcome
    /\ t.final_response = <<>> /\ t.committed_at = 0
    /\ ~Saved(t)

\* A tool turn that has just committed: the narration call was sent the text
\* the tool call returned, and the pair holds what the narration call returned.
CommitAfterNarration(t) ==
    /\ t.llm_calls = 2 /\ t.tool_calls = 1
    /\ t.tool_reply # NoToolReply
    /\ t.tool_result = call_mcp_tool(t.tool_name, t.tool_reply).text
    /\ Quotes(t.narration_messages[Len(t.narration_messages)].content,
              t.tool_name, t.tool_result)
    /\ t.narration_outcome # NoOutcome
    /\ t.final_response = call_llm(t.narration_outcome).text
    /\ PairSaved(t)

\* A turn without tool call that has just committed: the pair holds what the
\* decision call returned, and neither tool nor narration call was made.
CommitAfterDecision(t) ==
    /\ t.llm_calls = 1
    /\ t.decision_outcome # NoOutcome
    /\ t.final_response = call_llm(t.decision_outcome).text
    /\ ~parse_tool_call(t.final_response).found
    /\ t.tool_reply = NoToolReply /\ t.narration_outcome = NoOutcome
    /\ PairSaved(t)

\* C24: the steps of a turn run one after the other: the tool is invoked
\* only after the decision call returned a response that parses to an
\* invocation, the narration call is issued only after the tool call returned
\* its text, and the commit happens only once the final answer is there; a
\* turn enters its tool call from its start only and leaves it once.
C24_StepsInOrder ==
    /\ [](\A r \in Reqs : turn[r].pc = "awaiting_tool" => ToolAfterDecision(turn[r]))
    /\ [](done.pc = "finished" =>
            IF done.tool_calls > 0
            THEN CommitAfterNarration(done)
            ELSE CommitAfterDecision(done))
    /\ [][\A r \in Reqs :
            /\ (turn[r].pc # "awaiting_tool" /\ turn'[r].pc = "awaiting_tool") =>
                  /\ turn[r].pc \in {"scheduled", "idle"}
                  /\ turn[r].llm_calls = 0 /\ turn[r].tool_calls = 0
                  /\ conversation_history' = conversation_history
            /\ (turn[r].pc = "awaiting_tool" /\ turn'[r].pc # "awaiting_tool") =>
                  \/ turn'[r].pc = "interrupted"
                  \/ /\ done'.pc = "finished"
                     /\ done'.user_message = turn[r].user_message
                     /\ done'.llm_response = turn[r].llm_response
                     /\ done'.tool_name = turn[r].tool_name]_vars

\* A tool turn has committed the narration of the text its tool returned.
C24_Witness ==
    /\ done.pc = "finished"
    /\ done.tool_calls = 1
    /\ done.tool_reply.type = "result"
    /\ done.tool_result = ToolText
    /\ done.final_response = DirectAnswer

NotInitialized == Response(503, <<"Client not initialized yet. Please wait...">>, 0)

\* No turn was started: no coroutine, no LLM call, no tool call, no history.
NoTurn ==
    /\ \A r \in Reqs : turn[r] = IdleTurn /\ handler[r] = "idle"
    /\ conversation_history = <<>>
    /\ nTurns = 0

\* The global client can take a turn: it exists and its session, its event
\* loop and its tool catalog are set.
ClientUsable ==
    /\ client.exists
    /\ session = "open" /\ client.session = "ClientSession"
    /\ client.loop = "running"
    /\ client.available_tools = available_tools

\* C25: in the Flask client a request handled while the readiness flag is
\* down is answered 'Client not initialized yet. Please wait...' with status
\* 503 and starts no turn; and whenever the flag is up the global client
\* exists with its session, event loop and tool catalog set.
C25_ReadinessGate ==
    /\ []((frontend = "flask" /\ ~client_ready) => NoTurn)
    /\ [][(frontend = "flask" /\ ~client_ready
             /\ UNCHANGED <<session, client, client_ready>>) =>
                /\ last_response' = NotInitialized
                /\ UNCHANGED <<turn, handler, conversation_history, nTurns>>]_vars
    /\ [](last_response.status = 503 => last_response = NotInitialized)
    /\ [](client_ready => ClientUsable)

\* A request was turned away while the MCP thread was between the assignment
\* of the client's loop and the raising of the flag.
C25_Witness ==
    /\ last_response = NotInitialized
    /\ client.loop = "running"
    /\ ~client_ready

\* The step commits the pair of the turn in slot r, and the pair holds the
\* response of an LLM call that read the history as it was before the step.
CommitsInSameStep(r, sent) ==
    /\ done'.pc = "finished"
    /\ done'.user_message = turn[r].user_message
    /\ SubSeq(sent, 2, Len(sent) - 1) = conversation_history
    /\ conversation_history' =
          conversation_history \o
              <<[role |-> "user", content |-> done'.user_message],
                [role |-> "assistant", content |-> done'.final_response]>>

\* C26: in the Flask client another turn can run during a turn only while
\* the tool call is awaited: the step that issues a decision call either
\* reaches the tool call or also commits the turn, the step that issues the
\* narration call also commits the turn, and such a step moves no other turn.
C26_OnlyTheToolCallYields ==
    /\ [](\A r \in Reqs :
            turn[r].pc \in {"idle", "scheduled", "awaiting_tool", "finished",
                            "raised", "interrupted"})
    /\ [][frontend = "flask" =>
            \A r \in Reqs :
               /\ (turn[r].pc = "scheduled" /\ turn'[r].pc # "scheduled") =>
                     /\ \/ /\ turn'[r].pc = "awaiting_tool"
                           /\ UNCHANGED conversation_history
                        \/ /\ done'.tool_calls = 0
                           /\ CommitsInSameStep(r, done'.decision_messages)
                     /\ \A q \in Reqs \ {r} : turn'[q] = turn[q]
               /\ (turn[r].pc = "awaiting_tool" /\ turn'[r].pc # "awaiting_tool") =>
                     /\ done'.tool_calls = 1
                     /\ CommitsInSameStep(r, done'.narration_messages)
                     /\ \A q \in Reqs \ {r} : turn'[q] = turn[q]]_vars

\* A turn without tool call has committed while another turn waited for its
\* tool.
C26_Witness ==
    /\ frontend = "flask"
    /\ done.pc = "finished"
    /\ done.tool_calls = 0
    /\ \E r \in Reqs : turn[r].pc = "awaiting_tool"

\* The last step took an input that holds no message.
EmptyInput(input) == input.taken /\ input.message = <<>>

\* The step starts no turn: no coroutine, no LLM call, no tool call, no
\* change of the history.
StartsNoTurn ==
    /\ UNCHANGED <<conversation_history, turn, handler, nTurns>>
    /\ done' = IdleTurn

ProvideAMessage == Response(400, <<"Please provide a message">>, 0)

\* C27 (as stated): an empty utterance never starts a turn, at the console
\* (input empty after trimming) and in the Flask client (message empty or
\* missing), and the Flask caller receives 'Please provide a message' with
\* status 400.
C27_EmptyUtteranceTurnedDown ==
    [][EmptyInput(last_input') =>
          /\ StartsNoTurn
          /\ frontend = "flask" => last_response' = ProvideAMessage]_vars

\* C27 (amended): an empty utterance never starts a turn; the Flask caller
\* receives 'Please provide a message' with status 400 when the readiness
\* flag is up and the answer 503 of an uninitialized client when it is down;
\* the console prints nothing and prompts again.
C27_EmptyUtteranceStartsNoTurn ==
    [][EmptyInput(last_input') =>
          /\ StartsNoTurn
          /\ frontend = "flask" =>
                last_response' = IF client_ready THEN ProvideAMessage ELSE NotInitialized
          /\ frontend = "console" => last_response' = NoResponse /\ UNCHANGED session]_vars

\* A ready Flask client with a history has turned an empty message down.
C27_Witness ==
    /\ EmptyInput(last_input)
    /\ last_response = ProvideAMessage
    /\ conversation_history # <<>>

\* Nothing but blanks and newlines follows the first marker of the text.
NothingAfterMarker(text) ==
    /\ Contains(text, Marker)
    /\ LET at == IndexOf(text, Marker)
       IN  \A i \in (at + 1)..Len(text) : text[i] \in Whitespace

\* The invocation with no name and no arguments.
EmptyInvocation == [found |-> TRUE, tool_name |-> <<>>, arguments |-> {}]

\* C28: when the marker is present and the invocation line after it holds no
\* "{", parse_tool_call returns an invocation, also when that line is empty
\* (the marker ends the text or only whitespace follows it): the result is
\* then the invocation with the empty tool name and the empty mapping, and
\* the orchestrator calls the backend with that empty name.
C28_LineWithoutBraceIsInvocation ==
    /\ (Parsed /\ Contains(call.arg, Marker)
          /\ ~Contains(InvocationLine(call.arg), "{")) =>
            /\ call.result.found
            /\ call.result.tool_name = InvocationLine(call.arg)
            /\ call.result.arguments = {}
    /\ (Parsed /\ NothingAfterMarker(call.arg)) => call.result = EmptyInvocation
    /\ \A r \in Reqs :
          (turn[r].llm_calls = 1 /\ NothingAfterMarker(turn[r].llm_response)) =>
              /\ turn[r].pc \in {"awaiting_tool", "interrupted"}
              /\ turn[r].tool_calls = 1
              /\ turn[r].tool_name = <<>> /\ turn[r].arguments = {}
    /\ (done.pc = "finished" /\ NothingAfterMarker(done.llm_response)) =>
          /\ done.tool_calls = 1
          /\ done.tool_name = <<>>
          /\ done.tool_reply # NoToolReply
          /\ done.tool_result = call_mcp_tool(<<>>, done.tool_reply).text

\* A turn whose decision response ends with the marker has called the backend
\* with the empty name, and the backend's error was narrated.
C28_Witness ==
    /\ done.pc = "finished"
    /\ done.llm_response = BareMarker
    /\ done.tool_name = <<>>
    /\ done.tool_calls = 1
    /\ done.tool_reply.type = "raises"

\* The record of the console's turn after a step: the turn that committed,
\* or the turn that waits for its tool.
ConsoleTurnAfter == IF done'.pc = "finished" THEN done' ELSE turn'[Console]

\* C29: with one caller at a time, one pass of the console loop and the
\* Flask process_message are equivalent: from the same history, with the
\* same utterance, the same LLM outputs and the same tool reply, the pass
\* makes the LLM and tool calls process_message makes, with the same inputs,
\* prints the answer process_message returns and leaves the same history.
C29_ConsolePassIsProcessMessage ==
    [][frontend = "console" =>
          /\ (turn[Console].pc = "idle" /\ nTurns' = nTurns + 1) =>
                LET after == ConsoleTurnAfter
                    flask == DecisionStep(IdleTurn, last_input'.message,
                                          after.decision_outcome)
                IN  /\ flask.turn = after
                    /\ flask.history = conversation_history'
                    /\ flask.turn.pc = "finished" =>
                          last_response'.body = flask.turn.final_response
          /\ (turn[Console].pc = "awaiting_tool" /\ done'.pc = "finished") =>
                LET flask == NarrationStep(turn[Console], done'.tool_reply,
                                           done'.narration_outcome)
                IN  /\ flask.turn = done'
                    /\ flask.history = conversation_history'
                    /\ last_response'.body = flask.turn.final_response]_vars

\* The console has finished a second turn, one with a tool call, on a
\* history that held the first turn's pair.
C29_Witness ==
    /\ frontend = "console"
    /\ done.pc = "finished"
    /\ done.tool_calls = 1
    /\ Len(conversation_history) = 4
    /\ done.tool_reply.type = "result"

====
